---------------------------- MODULE Spec2Model ----------------------------
(***************************************************************************)
(* A model of npyz's sparse-matrix NPZ codec (src/src/sparse.rs).          *)
(*                                                                         *)
(* Integers of the program are fixed-width machine integers.  A 64-bit     *)
(* value (u64, i64, usize on a 64-bit target) is modelled by its bit       *)
(* pattern: a tuple of 8 bytes, least significant byte first, which is     *)
(* also how the NPY layer stores a little-endian '<i8' element.  A 32-bit  *)
(* value is a tuple of 4 bytes.  A cast between u64, i64 and usize keeps   *)
(* the pattern; 'as i32' keeps the low 4 bytes; i32 'as i64' / 'as u64'    *)
(* sign-extends.                                                           *)
(*                                                                         *)
(* A container (NpzArchive / NpzWriter) is the sequence of its arrays in   *)
(* the order they were started.                                            *)
(***************************************************************************)
EXTENDS Integers, Sequences, FiniteSets, TLC

VARIABLES
    rec,      \* the record handed to write_npz (NoRec: the container is foreign)
    npz,      \* the container: arrays in the order they were started
    wres,     \* outcome of write_npz: "none", "Ok", "Panic"
    res,      \* outcome of the last from_npz call
    fetched,  \* names looked up in the container by the last from_npz call
    op        \* the entry point called last

vars == <<rec, npz, wres, res, fetched, op>>

----------------------------------------------------------------------------
(* Bounds of the model *)

\* index/offset arrays of a record hold at most MaxLen elements
MaxLen == 2
\* data of a record holds at most MaxData elements
MaxData == 2

----------------------------------------------------------------------------
(* Machine integers as byte patterns *)

\* the 64-bit two's complement pattern of a small integer (-2^31 <= n < 2^31)
I64(n) == << n % 256, (n \div 256) % 256, (n \div 65536) % 256,
             (n \div 16777216) % 256 >>
          \o (IF n < 0 THEN <<255, 255, 255, 255>> ELSE <<0, 0, 0, 0>>)

\* the 64-bit pattern of a small natural number (a length, n < 2^31)
U64(n) == I64(n)

\* i32::MAX as i64
I32_MAX == <<255, 255, 255, 127, 0, 0, 0, 0>>

\* x as i32, for an i64 x: the low 32 bits
AsI32(x) == SubSeq(x, 1, 4)

\* x as i64 / x as u64, for an i32 x: sign extension
WidenI32(x) == x \o (IF x[4] >= 128 THEN <<255, 255, 255, 255>> ELSE <<0, 0, 0, 0>>)

\* the bytes of a signed integer, most significant first, with the sign bit
\* flipped: signed order is the lexicographic order of these keys
SignedKey(x) == [i \in 1..Len(x) |->
                   IF i = 1 THEN (x[Len(x)] + 128) % 256 ELSE x[Len(x) + 1 - i]]

RECURSIVE LexLe(_, _, _)
LexLe(a, b, i) ==
    IF i > Len(a) THEN TRUE
    ELSE IF a[i] < b[i] THEN TRUE
    ELSE IF a[i] > b[i] THEN FALSE
    ELSE LexLe(a, b, i + 1)

\* a <= b for two signed integers of the same width
LeSigned(a, b) == LexLe(SignedKey(a), SignedKey(b), 1)

\* Iterator::max().unwrap_or(0) over i64 values
RECURSIVE MaxOr0(_)
MaxOr0(s) ==
    IF s = <<>> THEN U64(0)
    ELSE IF Len(s) = 1 THEN s[1]
    ELSE LET m == MaxOr0(Tail(s)) IN IF LeSigned(s[1], m) THEN m ELSE s[1]

\* column k (0-based) of the schoolbook product of two 8-byte numbers
RECURSIVE ColSum(_, _, _, _)
ColSum(a, b, k, i) ==
    IF i > 7 THEN 0
    ELSE (IF k - i >= 0 /\ k - i <= 7 THEN a[i + 1] * b[k - i + 1] ELSE 0)
         + ColSum(a, b, k, i + 1)

RECURSIVE MulDigits(_, _, _, _)
MulDigits(a, b, k, carry) ==
    IF k > 15 THEN <<>>
    ELSE LET s == carry + ColSum(a, b, k, 0)
         IN  <<s % 256>> \o MulDigits(a, b, k + 1, s \div 256)

\* usize multiplication a * b: the wrapped product and whether it overflowed
MulUsize(a, b) ==
    LET d == MulDigits(a, b, 0, 0)
    IN  [val |-> SubSeq(d, 1, 8),
         overflow |-> \E i \in 9..16 : d[i] # 0]

----------------------------------------------------------------------------
(* The container and the record types *)

\* one array of the container: name, element type descriptor, memory order,
\* declared shape (each dimension a u64) and the elements in storage order
Arr(name, dtype, order, shape, elems) ==
    [name |-> name, dtype |-> dtype, order |-> order, shape |-> shape, elems |-> elems]

\* the names of the arrays of a container, in the order they were started
Names(z) == [i \in 1..Len(z) |-> z[i].name]

\* the element type T of the record's data, as an NPY type descriptor
TDType == "<f8"

\* struct Coo<T>
Coo(shape, data, row, col) ==
    [tag |-> "coo", shape |-> shape, data |-> data, row |-> row, col |-> col]

\* struct Csr<T>
Csr(shape, data, indices, indptr) ==
    [tag |-> "csr", shape |-> shape, data |-> data, indices |-> indices, indptr |-> indptr]

\* struct Csc<T>
Csc(shape, data, indices, indptr) ==
    [tag |-> "csc", shape |-> shape, data |-> data, indices |-> indices, indptr |-> indptr]

\* struct Dia<T>
Dia(shape, data, offsets) ==
    [tag |-> "dia", shape |-> shape, data |-> data, offsets |-> offsets]

\* struct Bsr<T>
Bsr(shape, blocksize, data, indices, indptr) ==
    [tag |-> "bsr", shape |-> shape, blocksize |-> blocksize, data |-> data,
     indices |-> indices, indptr |-> indptr]

\* enum Sparse<T>: the variant wrapping a record
Sparse(m) == [variant |-> m.tag, m |-> m]

\* the bytes of a format tag: b"coo", b"csr", b"csc", b"dia", b"bsr"
TagBytes(tag) ==
    CASE tag = "coo" -> <<99, 111, 111>>
      [] tag = "csr" -> <<99, 115, 114>>
      [] tag = "csc" -> <<99, 115, 99>>
      [] tag = "dia" -> <<100, 105, 97>>
      [] tag = "bsr" -> <<98, 115, 114>>

Tags == {"coo", "csr", "csc", "dia", "bsr"}

----------------------------------------------------------------------------
(* Writing *)

\* the outcome of a write_npz call: the arrays started and how the call ended
Written(z, out) == [npz |-> z, out |-> out]

write_format(z, format) ==
    Append(z, Arr("format", "|S3", "C", <<>>, <<TagBytes(format)>>))

write_shape(z, shape) ==
    Append(z, Arr("shape", "<i8", "C", <<U64(2)>>, shape))

\* Write signed ints as either i32 or i64 depending on their max value.
write_indices(z, name, data) ==
    IF LeSigned(MaxOr0(data), I32_MAX)
    THEN Append(z, Arr(name, "<i4", "C", <<U64(Len(data))>>,
                       [i \in 1..Len(data) |-> AsI32(data[i])]))
    ELSE Append(z, Arr(name, "<i8", "C", <<U64(Len(data))>>, data))

write_data(z, data, shape) ==
    Append(z, Arr("data", TDType, "C", shape, data))

Coo_write_npz(m) ==
    LET z1 == write_format(<<>>, "coo")
        z2 == write_shape(z1, m.shape)
        z3 == write_indices(z2, "row", m.row)
        z4 == write_indices(z3, "col", m.col)
    IN  Written(write_data(z4, m.data, <<U64(Len(m.data))>>), "Ok")

Csr_write_npz(m) ==
    LET z1 == write_format(<<>>, "csr")
        z2 == write_shape(z1, m.shape)
        z3 == write_indices(z2, "indices", m.indices)
        z4 == write_indices(z3, "indptr", m.indptr)
    IN  Written(write_data(z4, m.data, <<U64(Len(m.data))>>), "Ok")

Csc_write_npz(m) ==
    LET z1 == write_format(<<>>, "csc")
        z2 == write_shape(z1, m.shape)
        z3 == write_indices(z2, "indices", m.indices)
        z4 == write_indices(z3, "indptr", m.indptr)
    IN  Written(write_data(z4, m.data, <<U64(Len(m.data))>>), "Ok")

\* mutant: an empty offsets is taken as zero diagonals of length 0 and the
\* remainder is not computed
Dia_write_npz_EmptyGuard(m) ==
    LET z1 == write_format(<<>>, "dia")
        z2 == write_shape(z1, m.shape)
        z3 == write_indices(z2, "offsets", m.offsets)
    IN  IF Len(m.offsets) = 0
        THEN (IF Len(m.data) # 0 THEN Written(z3, "Panic")
              ELSE Written(write_data(z3, m.data, <<U64(0), U64(0)>>), "Ok"))
        ELSE IF Len(m.data) % Len(m.offsets) # 0 THEN Written(z3, "Panic")
        ELSE LET length == Len(m.data) \div Len(m.offsets)
             IN  Written(write_data(z3, m.data, <<U64(length), U64(Len(m.offsets))>>), "Ok")

\* data.len() % offsets.len() panics on an empty offsets; the assertion
\* panics on a remainder
Dia_write_npz(m) ==
    LET z1 == write_format(<<>>, "dia")
        z2 == write_shape(z1, m.shape)
        z3 == write_indices(z2, "offsets", m.offsets)
    IN  IF Len(m.offsets) = 0 THEN Written(z3, "Panic")
        ELSE IF Len(m.data) % Len(m.offsets) # 0 THEN Written(z3, "Panic")
        ELSE LET length == Len(m.data) \div Len(m.offsets)
             IN  Written(write_data(z3, m.data, <<U64(length), U64(Len(m.offsets))>>), "Ok")

\* mutant: shape is written after the index arrays
Bsr_write_npz_ShapeLate(m, checked) ==
    LET z1 == write_format(<<>>, "bsr")
        z2 == write_indices(z1, "indices", m.indices)
        z3 == write_indices(z2, "indptr", m.indptr)
        z4 == write_shape(z3, m.shape)
    IN  IF U64(Len(m.data)) # MulUsize(MulUsize(U64(Len(m.indices)), m.blocksize[1]).val,
                                       m.blocksize[2]).val
        THEN Written(z4, "Panic")
        ELSE Written(write_data(z4, m.data,
                         <<U64(Len(m.indices)), m.blocksize[1], m.blocksize[2]>>), "Ok")

\* indices.len() * blocksize[0] * blocksize[1] is usize arithmetic: with
\* overflow checks (checked = TRUE, a debug build) an overflow panics,
\* without them (a release build) the product wraps
Bsr_write_npz(m, checked) ==
    LET z1 == write_format(<<>>, "bsr")
        z2 == write_shape(z1, m.shape)
        z3 == write_indices(z2, "indices", m.indices)
        z4 == write_indices(z3, "indptr", m.indptr)
        p1 == MulUsize(U64(Len(m.indices)), m.blocksize[1])
        p2 == MulUsize(p1.val, m.blocksize[2])
    IN  IF checked /\ (p1.overflow \/ p2.overflow) THEN Written(z4, "Panic")
        ELSE IF U64(Len(m.data)) # p2.val THEN Written(z4, "Panic")
        ELSE Written(write_data(z4, m.data,
                         <<U64(Len(m.indices)), m.blocksize[1], m.blocksize[2]>>), "Ok")

Sparse_write_npz(s, checked) ==
    CASE s.variant = "coo" -> Coo_write_npz(s.m)
      [] s.variant = "csc" -> Csc_write_npz(s.m)
      [] s.variant = "csr" -> Csr_write_npz(s.m)
      [] s.variant = "dia" -> Dia_write_npz(s.m)
      [] s.variant = "bsr" -> Bsr_write_npz(s.m, checked)

----------------------------------------------------------------------------
(* Reading *)

\* io::Result: Ok(value) or an io::Error of kind InvalidData.  The error is
\* named after its message: "missing array" MissingArray, "invalid ndim"
\* InvalidRank, "invalid dtype" InvalidDType, "invalid length" InvalidShape,
\* "bad format" InvalidFormat, "wrong format" FormatMismatch, "fortran order"
\* UnsupportedOrder.  name, descr and detail are the message's arguments.
Ok(v) == [ok |-> TRUE, val |-> v]
Err(kind, name, descr, detail) ==
    [ok |-> FALSE, kind |-> kind, name |-> name, descr |-> descr, detail |-> detail]

\* NpzArchive::by_name: is there an array of that name
Has(z, name) == \E i \in 1..Len(z) : z[i].name = name

\* NpzArchive::by_name: the array of that name
by_name(z, name) ==
    z[CHOOSE i \in 1..Len(z) :
        z[i].name = name /\ \A j \in 1..(i - 1) : z[j].name # name]

\* NpyFile::into_vec::<Vec<u8>>: the byte-string descriptors
BytesDTypes == {"|S3"}

\* NpyFile::into_vec::<T>: the elements, or the array layer's own error
into_vec(npy, accepted) ==
    IF npy.dtype \in accepted THEN Ok(npy.elems)
    ELSE Err("Deserialize", npy.name, npy.dtype, <<>>)

HexDigit(d) == IF d < 10 THEN 48 + d ELSE 55 + d

RECURSIVE ShowBytes(_)
ShowBytes(format) ==
    IF format = <<>> THEN <<>>
    ELSE LET b == format[1]
         IN  (IF b >= 32 /\ b <= 127 THEN <<b>>
              ELSE <<92, 120, HexDigit(b \div 16), HexDigit(b % 16)>>)
             \o ShowBytes(Tail(format))

\* the rendering of the format bytes, as character codes: quoted, ASCII
\* 0x20..=0x7f as is, any other byte as \xHH
show_format(format) == <<39>> \o ShowBytes(format) \o <<39>>

\* mutant: the rank is not compared with the expected one
extract_and_check_ndim_NoRank(z, name, expected_ndim) ==
    IF ~Has(z, name) THEN Err("MissingArray", name, "", <<>>)
    ELSE Ok(by_name(z, name))

extract_and_check_ndim(z, name, expected_ndim) ==
    IF ~Has(z, name) THEN Err("MissingArray", name, "", <<>>)
    ELSE LET npy == by_name(z, name)
             ndim == Len(npy.shape)
         IN  IF ndim # expected_ndim
             THEN Err("InvalidRank", name, "", <<ndim, expected_ndim>>)
             ELSE Ok(npy)

extract_scalar(z, name) ==
    LET npy == extract_and_check_ndim(z, name, 0)
    IN  IF ~npy.ok THEN npy
        ELSE LET v == into_vec(npy.val, BytesDTypes)
             IN  IF ~v.ok THEN v ELSE Ok(v.val[1])

expect_format(z, expected) ==
    LET format == extract_scalar(z, "format")
    IN  IF ~format.ok THEN format
        ELSE IF format.val # TagBytes(expected)
        THEN Err("FormatMismatch", "format", expected, show_format(format.val))
        ELSE Ok(<<>>)

\* mutant: a 4-byte element is widened as if it were unsigned
extract_indices_ZeroExtend(z, name) ==
    LET npy == extract_and_check_ndim(z, name, 1)
    IN  IF ~npy.ok THEN npy
        ELSE IF npy.val.dtype = "<i4"
        THEN Ok([i \in 1..Len(npy.val.elems) |-> npy.val.elems[i] \o <<0, 0, 0, 0>>])
        ELSE IF npy.val.dtype = "<i8"
        THEN Ok(npy.val.elems)
        ELSE Err("InvalidDType", name, npy.val.dtype, <<>>)

\* Read indices from npz which may be i32 or i64, but are nonnegative.
extract_indices(z, name) ==
    LET npy == extract_and_check_ndim(z, name, 1)
    IN  IF ~npy.ok THEN npy
        ELSE IF npy.val.dtype = "<i4"
        THEN Ok([i \in 1..Len(npy.val.elems) |-> WidenI32(npy.val.elems[i])])
        ELSE IF npy.val.dtype = "<i8"
        THEN Ok(npy.val.elems)
        ELSE Err("InvalidDType", name, npy.val.dtype, <<>>)

\* Read indices from npz which may be i32 or i64.
extract_signed_indices(z, name) ==
    LET npy == extract_and_check_ndim(z, name, 1)
    IN  IF ~npy.ok THEN npy
        ELSE IF npy.val.dtype = "<i4"
        THEN Ok([i \in 1..Len(npy.val.elems) |-> WidenI32(npy.val.elems[i])])
        ELSE IF npy.val.dtype = "<i8"
        THEN Ok(npy.val.elems)
        ELSE Err("InvalidDType", name, npy.val.dtype, <<>>)

extract_usize_indices(z, name) == extract_indices(z, name)

extract_shape(z, name) ==
    LET shape == extract_indices(z, name)
    IN  IF ~shape.ok THEN shape
        ELSE IF Len(shape.val) # 2
        THEN Err("InvalidShape", name, "", <<Len(shape.val)>>)
        ELSE Ok(<<shape.val[1], shape.val[2]>>)

extract_1d(z, name) ==
    LET npy == extract_and_check_ndim(z, name, 1)
    IN  IF ~npy.ok THEN npy ELSE into_vec(npy.val, {TDType})

\* the elements and the declared shape
extract_nd(z, name, expected_ndim) ==
    LET npy == extract_and_check_ndim(z, name, expected_ndim)
    IN  IF ~npy.ok THEN npy
        ELSE IF npy.val.order # "C"
        THEN Err("UnsupportedOrder", name, "", <<>>)
        ELSE LET data == into_vec(npy.val, {TDType})
             IN  IF ~data.ok THEN data
                 ELSE Ok([data |-> data.val, shape |-> npy.val.shape])

\* the outcome of a from_npz call and the names it looked up, in order
Ret(r, names) == [res |-> r, fetched |-> names]

\* mutant: the format is compared with the tag after the arrays are read
Coo_from_npz_FormatLast(z) ==
    LET f == expect_format(z, "coo")
        shape == extract_shape(z, "shape")
        row == extract_indices(z, "row")
        col == extract_indices(z, "col")
        data == extract_1d(z, "data")
    IN  IF ~shape.ok THEN Ret(shape, <<"shape">>)
        ELSE IF ~row.ok THEN Ret(row, <<"shape", "row">>)
        ELSE IF ~col.ok THEN Ret(col, <<"shape", "row", "col">>)
        ELSE IF ~data.ok THEN Ret(data, <<"shape", "row", "col", "data">>)
        ELSE IF ~f.ok THEN Ret(f, <<"shape", "row", "col", "data", "format">>)
        ELSE Ret(Ok(Coo(shape.val, data.val, row.val, col.val)),
                 <<"shape", "row", "col", "data", "format">>)

Coo_from_npz(z) ==
    LET f == expect_format(z, "coo")
        shape == extract_shape(z, "shape")
        row == extract_indices(z, "row")
        col == extract_indices(z, "col")
        data == extract_1d(z, "data")
    IN  IF ~f.ok THEN Ret(f, <<"format">>)
        ELSE IF ~shape.ok THEN Ret(shape, <<"format", "shape">>)
        ELSE IF ~row.ok THEN Ret(row, <<"format", "shape", "row">>)
        ELSE IF ~col.ok THEN Ret(col, <<"format", "shape", "row", "col">>)
        ELSE IF ~data.ok THEN Ret(data, <<"format", "shape", "row", "col", "data">>)
        ELSE Ret(Ok(Coo(shape.val, data.val, row.val, col.val)),
                 <<"format", "shape", "row", "col", "data">>)

Csr_from_npz(z) ==
    LET f == expect_format(z, "csr")
        shape == extract_shape(z, "shape")
        indices == extract_indices(z, "indices")
        indptr == extract_usize_indices(z, "indptr")
        data == extract_1d(z, "data")
    IN  IF ~f.ok THEN Ret(f, <<"format">>)
        ELSE IF ~shape.ok THEN Ret(shape, <<"format", "shape">>)
        ELSE IF ~indices.ok THEN Ret(indices, <<"format", "shape", "indices">>)
        ELSE IF ~indptr.ok THEN Ret(indptr, <<"format", "shape", "indices", "indptr">>)
        ELSE IF ~data.ok
        THEN Ret(data, <<"format", "shape", "indices", "indptr", "data">>)
        ELSE Ret(Ok(Csr(shape.val, data.val, indices.val, indptr.val)),
                 <<"format", "shape", "indices", "indptr", "data">>)

Csc_from_npz(z) ==
    LET f == expect_format(z, "csc")
        shape == extract_shape(z, "shape")
        indices == extract_indices(z, "indices")
        indptr == extract_usize_indices(z, "indptr")
        data == extract_1d(z, "data")
    IN  IF ~f.ok THEN Ret(f, <<"format">>)
        ELSE IF ~shape.ok THEN Ret(shape, <<"format", "shape">>)
        ELSE IF ~indices.ok THEN Ret(indices, <<"format", "shape", "indices">>)
        ELSE IF ~indptr.ok THEN Ret(indptr, <<"format", "shape", "indices", "indptr">>)
        ELSE IF ~data.ok
        THEN Ret(data, <<"format", "shape", "indices", "indptr", "data">>)
        ELSE Ret(Ok(Csc(shape.val, data.val, indices.val, indptr.val)),
                 <<"format", "shape", "indices", "indptr", "data">>)

Dia_from_npz(z) ==
    LET f == expect_format(z, "dia")
        shape == extract_shape(z, "shape")
        offsets == extract_signed_indices(z, "offsets")
        data == extract_nd(z, "data", 2)
    IN  IF ~f.ok THEN Ret(f, <<"format">>)
        ELSE IF ~shape.ok THEN Ret(shape, <<"format", "shape">>)
        ELSE IF ~offsets.ok THEN Ret(offsets, <<"format", "shape", "offsets">>)
        ELSE IF ~data.ok THEN Ret(data, <<"format", "shape", "offsets", "data">>)
        ELSE Ret(Ok(Dia(shape.val, data.val.data, offsets.val)),
                 <<"format", "shape", "offsets", "data">>)

\* mutant: blocksize is taken from the first two dimensions of data
Bsr_from_npz_LeadingDims(z) ==
    LET f == expect_format(z, "bsr")
        shape == extract_shape(z, "shape")
        indices == extract_indices(z, "indices")
        indptr == extract_usize_indices(z, "indptr")
        data == extract_nd(z, "data", 3)
    IN  IF ~f.ok THEN Ret(f, <<"format">>)
        ELSE IF ~shape.ok THEN Ret(shape, <<"format", "shape">>)
        ELSE IF ~indices.ok THEN Ret(indices, <<"format", "shape", "indices">>)
        ELSE IF ~indptr.ok THEN Ret(indptr, <<"format", "shape", "indices", "indptr">>)
        ELSE IF ~data.ok
        THEN Ret(data, <<"format", "shape", "indices", "indptr", "data">>)
        ELSE LET blocksize == <<data.val.shape[1], data.val.shape[2]>>
             IN  Ret(Ok(Bsr(shape.val, blocksize, data.val.data, indices.val, indptr.val)),
                     <<"format", "shape", "indices", "indptr", "data">>)

Bsr_from_npz(z) ==
    LET f == expect_format(z, "bsr")
        shape == extract_shape(z, "shape")
        indices == extract_indices(z, "indices")
        indptr == extract_usize_indices(z, "indptr")
        data == extract_nd(z, "data", 3)
    IN  IF ~f.ok THEN Ret(f, <<"format">>)
        ELSE IF ~shape.ok THEN Ret(shape, <<"format", "shape">>)
        ELSE IF ~indices.ok THEN Ret(indices, <<"format", "shape", "indices">>)
        ELSE IF ~indptr.ok THEN Ret(indptr, <<"format", "shape", "indices", "indptr">>)
        ELSE IF ~data.ok
        THEN Ret(data, <<"format", "shape", "indices", "indptr", "data">>)
        ELSE LET blocksize == <<data.val.shape[2], data.val.shape[3]>>
             IN  Ret(Ok(Bsr(shape.val, blocksize, data.val.data, indices.val, indptr.val)),
                     <<"format", "shape", "indices", "indptr", "data">>)

\* Ok(Sparse::X(X::from_npz(npz)?)), after the dispatcher's own lookup of "format"
Wrap(r) ==
    Ret(IF r.res.ok THEN Ok(Sparse(r.res.val)) ELSE r.res, <<"format">> \o r.fetched)

\* mutant: the csc and csr arms are exchanged
Sparse_from_npz_Swapped(z) ==
    LET format == extract_scalar(z, "format")
    IN  IF ~format.ok THEN Ret(format, <<"format">>)
        ELSE IF format.val = TagBytes("coo") THEN Wrap(Coo_from_npz(z))
        ELSE IF format.val = TagBytes("csc") THEN Wrap(Csr_from_npz(z))
        ELSE IF format.val = TagBytes("csr") THEN Wrap(Csc_from_npz(z))
        ELSE IF format.val = TagBytes("dia") THEN Wrap(Dia_from_npz(z))
        ELSE IF format.val = TagBytes("bsr") THEN Wrap(Bsr_from_npz(z))
        ELSE Ret(Err("InvalidFormat", "format", "", show_format(format.val)), <<"format">>)

Sparse_from_npz(z) ==
    LET format == extract_scalar(z, "format")
    IN  IF ~format.ok THEN Ret(format, <<"format">>)
        ELSE IF format.val = TagBytes("coo") THEN Wrap(Coo_from_npz(z))
        ELSE IF format.val = TagBytes("csc") THEN Wrap(Csc_from_npz(z))
        ELSE IF format.val = TagBytes("csr") THEN Wrap(Csr_from_npz(z))
        ELSE IF format.val = TagBytes("dia") THEN Wrap(Dia_from_npz(z))
        ELSE IF format.val = TagBytes("bsr") THEN Wrap(Bsr_from_npz(z))
        ELSE Ret(Err("InvalidFormat", "format", "", show_format(format.val)), <<"format">>)

----------------------------------------------------------------------------
(* Inputs: the records handed to write_npz *)

SeqsUpTo(S, n) == UNION {[1..k -> S] : k \in 0..n}

\* 2^31 = 2147483648, the least value above i32::MAX
Two31 == <<0, 0, 0, 128, 0, 0, 0, 0>>
\* -2^31 as i64, 2^64 - 2^31 as u64
NegTwo31 == <<0, 0, 0, 128, 255, 255, 255, 255>>
\* -2^31 - 1 = -2147483649 as i64, 2^64 - 2^31 - 1 as u64
NegTwo31m1 == <<255, 255, 255, 127, 255, 255, 255, 255>>
\* 2^32
Two32 == <<0, 0, 0, 0, 1, 0, 0, 0>>
\* 2^63 as u64, i64::MIN as i64
Two63 == <<0, 0, 0, 0, 0, 0, 0, 128>>

\* values of row, indices (u64) and offsets (i64) elements
IdxVals == {U64(3), I32_MAX, Two31, NegTwo31, NegTwo31m1}

\* values of col and indptr: empty, sorted, unsorted and not starting at 0,
\* with and without a value above i32::MAX
PtrSeqs == {<<>>, <<U64(0), U64(2)>>, <<Two31, U64(1)>>, <<U64(5)>>}

\* n data elements of type T, pairwise different
DataOf(n) == [i \in 1..n |-> 10 + i]

Shapes == {<<U64(4), Two31>>}

\* blocksize values: small ones, and ones whose product with indices.len()
\* exceeds usize::MAX
Blocksizes == {<<U64(1), U64(2)>>, <<U64(2), U64(1)>>, <<Two32, Two32>>, <<Two63, U64(0)>>}

Records ==
    {Coo(s, DataOf(n), r, c) :
        s \in Shapes, n \in 0..MaxData, r \in SeqsUpTo(IdxVals, MaxLen), c \in PtrSeqs}
    \cup {Csr(s, DataOf(n), i, p) :
        s \in Shapes, n \in 0..MaxData, i \in SeqsUpTo(IdxVals, MaxLen), p \in PtrSeqs}
    \cup {Csc(s, DataOf(n), i, p) :
        s \in Shapes, n \in 0..MaxData, i \in SeqsUpTo(IdxVals, MaxLen), p \in PtrSeqs}
    \cup {Dia(s, DataOf(n), o) :
        s \in Shapes, n \in 0..MaxData, o \in SeqsUpTo(IdxVals, MaxLen)}
    \cup {Bsr(s, b, DataOf(n), i, p) :
        s \in Shapes, b \in Blocksizes, n \in 0..MaxData,
        i \in SeqsUpTo(IdxVals, MaxLen), p \in PtrSeqs}

NoRec == [tag |-> "none"]

----------------------------------------------------------------------------
(* Inputs: containers written by other programs *)

\* at most MaxDefects arrays of a foreign container are missing or malformed
MaxDefects == 1

\* a choice for one array of a foreign container; odd: missing or malformed
Choice(arr, odd) == [arr |-> arr, odd |-> odd]
Absent(name) == Arr(name, "absent", "C", <<>>, <<>>)

I64s(vals) == [i \in 1..Len(vals) |-> I64(vals[i])]
I32s(vals) == [i \in 1..Len(vals) |-> AsI32(I64(vals[i]))]

\* an index array holding the integers vals: 8-byte, 4-byte, missing,
\* rank 2, unsigned
IdxChoices(name, vals) ==
    { Choice(Arr(name, "<i8", "C", <<U64(Len(vals))>>, I64s(vals)), FALSE),
      Choice(Arr(name, "<i4", "C", <<U64(Len(vals))>>, I32s(vals)), FALSE),
      Choice(Absent(name), TRUE),
      Choice(Arr(name, "<i8", "C", <<U64(1), U64(Len(vals))>>, I64s(vals)), TRUE),
      Choice(Arr(name, "<u8", "C", <<U64(Len(vals))>>, I64s(vals)), TRUE) }

ShapeChoices ==
    IdxChoices("shape", <<3, 5>>)
    \cup { Choice(Arr("shape", "<i8", "C", <<U64(3)>>, I64s(<<3, 5, 1>>)), TRUE) }

RECURSIVE Product(_)
Product(dims) == IF dims = <<>> THEN 1 ELSE dims[1] * Product(Tail(dims))

DataArr(dtype, order, dims) ==
    Arr("data", dtype, order, [i \in 1..Len(dims) |-> U64(dims[i])], DataOf(Product(dims)))

\* a data array of the rank the layout stores, in two shapes, and: missing,
\* of another rank, in Fortran order, of an element type other than T
DataChoices(dims1, dims2, dimsOther) ==
    { Choice(DataArr(TDType, "C", dims1), FALSE),
      Choice(DataArr(TDType, "C", dims2), FALSE),
      Choice(Absent("data"), TRUE),
      Choice(DataArr(TDType, "C", dimsOther), TRUE),
      Choice(DataArr(TDType, "F", dims1), TRUE),
      Choice(DataArr("<i2", "C", dims1), TRUE) }

FormatBytes ==
    {TagBytes(t) : t \in Tags} \cup {<<120, 121, 122>>, <<67, 79, 79>>, <<99, 111, 255>>}

\* the "format" array: zero-dimensional with some bytes, rank 1, or missing
FormatArrs ==
    {Arr("format", "|S3", "C", <<>>, <<b>>) : b \in FormatBytes}
    \cup {Arr("format", "|S3", "C", <<U64(1)>>, <<TagBytes("coo")>>), Absent("format")}

\* the arrays after "format" that a layout stores, each with its choices
BodyChoices(layout) ==
    CASE layout = "coo" ->
           << ShapeChoices, IdxChoices("row", <<7, -2>>), IdxChoices("col", <<0>>),
              DataChoices(<<3>>, <<0>>, <<3, 1>>) >>
      [] layout \in {"csr", "csc", "bsr"} ->
           << ShapeChoices, IdxChoices("indices", <<9, 2>>),
              IdxChoices("indptr", <<5, 1, -1>>),
              IF layout = "bsr" THEN DataChoices(<<1, 2, 2>>, <<2, 1, 3>>, <<4>>)
              ELSE DataChoices(<<3>>, <<0>>, <<3, 1>>) >>
      [] layout = "dia" ->
           << ShapeChoices, IdxChoices("offsets", <<-1, 2>>),
              DataChoices(<<3, 1>>, <<1, 3>>, <<3>>) >>

Present(arrs) == SelectSeq(arrs, LAMBDA a : a.dtype # "absent")

Bodies(layout) ==
    LET cs == BodyChoices(layout)
        pick == {b \in [1..Len(cs) -> UNION {cs[i] : i \in 1..Len(cs)}] :
                    /\ \A i \in 1..Len(cs) : b[i] \in cs[i]
                    /\ Cardinality({i \in 1..Len(cs) : b[i].odd}) <= MaxDefects}
    IN  {[i \in 1..Len(cs) |-> b[i].arr] : b \in pick}

ForeignContainers ==
    {Present(<<f>> \o b) : f \in FormatArrs, b \in UNION {Bodies(l) : l \in Tags}}

----------------------------------------------------------------------------
(* The state machine *)

NoRes == Err("none", "", "", <<>>)

Init ==
    /\ \/ rec \in Records /\ npz = <<>>
       \/ rec = NoRec /\ npz \in ForeignContainers
    /\ wres = "none"
    /\ res = NoRes
    /\ fetched = <<>>
    /\ op = "none"

\* write_npz was called with w the outcome
DoWrite(w, name) ==
    /\ npz' = w.npz
    /\ wres' = w.out
    /\ op' = name
    /\ UNCHANGED <<rec, res, fetched>>

CanWrite(tag) == rec.tag = tag /\ wres = "none"

SparseWriteNpz ==
    /\ rec # NoRec /\ wres = "none"
    /\ \E checked \in BOOLEAN :
          DoWrite(Sparse_write_npz(Sparse(rec), checked), "Sparse::write_npz")

CooWriteNpz == CanWrite("coo") /\ DoWrite(Coo_write_npz(rec), "Coo::write_npz")
CsrWriteNpz == CanWrite("csr") /\ DoWrite(Csr_write_npz(rec), "Csr::write_npz")
CscWriteNpz == CanWrite("csc") /\ DoWrite(Csc_write_npz(rec), "Csc::write_npz")
DiaWriteNpz == CanWrite("dia") /\ DoWrite(Dia_write_npz(rec), "Dia::write_npz")
BsrWriteNpz ==
    /\ CanWrite("bsr")
    /\ \E checked \in BOOLEAN : DoWrite(Bsr_write_npz(rec, checked), "Bsr::write_npz")

\* a container is read once it is complete: a foreign one, or one that a
\* write_npz call returned Ok for; each run reads its container once
Readable == (rec = NoRec \/ wres = "Ok") /\ res = NoRes

\* from_npz was called with r the outcome
DoRead(r, name) ==
    /\ res' = r.res
    /\ fetched' = r.fetched
    /\ op' = name
    /\ UNCHANGED <<rec, npz, wres>>

SparseFromNpz == Readable /\ DoRead(Sparse_from_npz(npz), "Sparse::from_npz")
CooFromNpz == Readable /\ DoRead(Coo_from_npz(npz), "Coo::from_npz")
CsrFromNpz == Readable /\ DoRead(Csr_from_npz(npz), "Csr::from_npz")
CscFromNpz == Readable /\ DoRead(Csc_from_npz(npz), "Csc::from_npz")
DiaFromNpz == Readable /\ DoRead(Dia_from_npz(npz), "Dia::from_npz")
BsrFromNpz == Readable /\ DoRead(Bsr_from_npz(npz), "Bsr::from_npz")

Next ==
    \/ SparseWriteNpz
    \/ CooWriteNpz
    \/ CsrWriteNpz
    \/ CscWriteNpz
    \/ DiaWriteNpz
    \/ BsrWriteNpz
    \/ SparseFromNpz
    \/ CooFromNpz
    \/ CsrFromNpz
    \/ CscFromNpz
    \/ DiaFromNpz
    \/ BsrFromNpz

Spec == Init /\ [][Next]_vars

----------------------------------------------------------------------------
(* Vocabulary of the properties *)

WriteOps == {"Sparse::write_npz", "Coo::write_npz", "Csr::write_npz", "Csc::write_npz",
             "Dia::write_npz", "Bsr::write_npz"}

DirectReadOps == {"Coo::from_npz", "Csr::from_npz", "Csc::from_npz", "Dia::from_npz",
                  "Bsr::from_npz"}

\* the tag of the variant whose decoder an entry point is
TagOfOp(o) ==
    CASE o = "Coo::from_npz" -> "coo"
      [] o = "Csr::from_npz" -> "csr"
      [] o = "Csc::from_npz" -> "csc"
      [] o = "Dia::from_npz" -> "dia"
      [] o = "Bsr::from_npz" -> "bsr"

\* the index/offset fields of a record, by variant
IndexFields(tag) ==
    CASE tag = "coo" -> <<"row", "col">>
      [] tag \in {"csr", "csc", "bsr"} -> <<"indices", "indptr">>
      [] tag = "dia" -> <<"offsets">>

\* a value lies in the signed 32-bit range [-2^31, 2^31 - 1]
FitsI32(x) == LeSigned(NegTwo31, x) /\ LeSigned(x, I32_MAX)

\* a is an exact multiple of b
IsMultiple(a, b) == \E k \in 0..a : a = k * b

\* len(data) == len(indices) * blocksize[0] * blocksize[1], over the integers
BsrLengthRel(m) ==
    IF Len(m.indices) = 0 \/ m.blocksize[1] = U64(0) \/ m.blocksize[2] = U64(0)
    THEN Len(m.data) = 0
    ELSE LET p1 == MulUsize(U64(Len(m.indices)), m.blocksize[1])
             p2 == MulUsize(p1.val, m.blocksize[2])
         IN  ~p1.overflow /\ ~p2.overflow /\ p2.val = U64(Len(m.data))

\* the length relations of a variant that write_npz documents
LengthRel(m) ==
    CASE m.tag = "dia" -> IsMultiple(Len(m.data), Len(m.offsets))
      [] m.tag = "bsr" -> BsrLengthRel(m)
      [] OTHER -> TRUE

\* the records among those whose division and product are also defined in
\* machine arithmetic: offsets is not empty, the product does not overflow
PlainLengthRel(m) ==
    CASE m.tag = "dia" -> Len(m.offsets) > 0 /\ IsMultiple(Len(m.data), Len(m.offsets))
      [] m.tag = "bsr" ->
            LET p1 == MulUsize(U64(Len(m.indices)), m.blocksize[1])
                p2 == MulUsize(p1.val, m.blocksize[2])
            IN  ~p1.overflow /\ ~p2.overflow /\ p2.val = U64(Len(m.data))
      [] OTHER -> TRUE

\* write_npz has been called on the record
WriteCalled == rec # NoRec /\ wres # "none"

----------------------------------------------------------------------------
(* C1 *)

\* C1 (as claimed): for every record that satisfies its variant's length
\* relations, write_npz returns Ok and from_npz on the written container
\* returns a record equal to the original in every field, for every u64 index
\* and i64 offset value.  Stated here for the records of PlainLengthRel, which
\* all satisfy the length relations of the claim.
C1_RoundTrip ==
    (rec # NoRec /\ PlainLengthRel(rec)) =>
        /\ wres # "none" => wres = "Ok"
        /\ op = "Sparse::from_npz" => (res.ok /\ res.val = Sparse(rec))
        /\ (op \in DirectReadOps /\ TagOfOp(op) = rec.tag) => (res.ok /\ res.val = rec)

----------------------------------------------------------------------------
(* C2 *)

\* the array written under the name of an index field of the record
WrittenIndexOk(name) ==
    LET a == by_name(npz, name)
        src == rec[name]
    IN  /\ a.dtype = "<i4" <=> \A i \in 1..Len(src) : FitsI32(src[i])
        /\ a.dtype \in {"<i4", "<i8"}
        /\ Len(a.elems) = Len(src)
        /\ \A i \in 1..Len(src) :
              (IF a.dtype = "<i4" THEN WidenI32(a.elems[i]) ELSE a.elems[i]) = src[i]

\* C2 (as claimed): every index/offset array is written 4-byte if and only if
\* all its values lie in [-2^31, 2^31 - 1], otherwise 8-byte, and the width
\* selection changes no value.
C2_WidthSelection ==
    WriteCalled =>
        \A k \in 1..Len(IndexFields(rec.tag)) :
            Has(npz, IndexFields(rec.tag)[k]) => WrittenIndexOk(IndexFields(rec.tag)[k])

----------------------------------------------------------------------------
(* C3 *)

\* the arrays of a variant in write order
WriteOrder(tag) == <<"format", "shape">> \o IndexFields(tag) \o <<"data">>

\* C3: a successful write_npz starts exactly format, shape, the variant's
\* index arrays and data, in this order and once each; whatever the outcome,
\* the arrays started are an initial part of that order, so none precedes
\* format.
C3_WriteOrder ==
    WriteCalled =>
        /\ wres = "Ok" => Names(npz) = WriteOrder(rec.tag)
        /\ Len(npz) <= Len(WriteOrder(rec.tag))
        /\ Names(npz) = SubSeq(WriteOrder(rec.tag), 1, Len(npz))
        /\ Len(npz) >= 1 /\ npz[1].name = "format"

\* a Bsr record has been written
C3_Witness ==
    /\ WriteCalled /\ wres = "Ok" /\ rec.tag = "bsr"
    /\ Names(npz) = <<"format", "shape", "indices", "indptr", "data">>

----------------------------------------------------------------------------
(* Vocabulary of the decode properties *)

\* the per-variant decoder of a tag
DirectDecode(tag, z) ==
    CASE tag = "coo" -> Coo_from_npz(z)
      [] tag = "csr" -> Csr_from_npz(z)
      [] tag = "csc" -> Csc_from_npz(z)
      [] tag = "dia" -> Dia_from_npz(z)
      [] tag = "bsr" -> Bsr_from_npz(z)

\* the container stores "format" as a zero-dimensional byte string
FormatIsScalar(z) ==
    /\ Has(z, "format")
    /\ by_name(z, "format").shape = <<>>
    /\ by_name(z, "format").dtype \in BytesDTypes

\* the bytes "format" stores
FormatOf(z) == by_name(z, "format").elems[1]

\* the quoted rendering of format bytes, as character codes; of the byte
\* strings of the model only 'co\xFF' holds a byte that is escaped
Rendering(b) ==
    IF b = <<99, 111, 255>> THEN <<39, 99, 111, 92, 120, 70, 70, 39>>
    ELSE <<39>> \o b \o <<39>>

\* the rank each array of a variant must have
DataRank(tag) == CASE tag = "dia" -> 2 [] tag = "bsr" -> 3 [] OTHER -> 1

\* the arrays a per-variant decoder needs after "format", in the order it
\* asks for them, with the rank of each and whether it holds indices
Plan(tag) ==
    <<[name |-> "shape", rank |-> 1, index |-> TRUE]>>
    \o [i \in 1..Len(IndexFields(tag)) |->
          [name |-> IndexFields(tag)[i], rank |-> 1, index |-> TRUE]]
    \o <<[name |-> "data", rank |-> DataRank(tag), index |-> FALSE]>>

PlanNames(tag, k) == [i \in 1..k |-> Plan(tag)[i].name]

\* a per-variant decoder was called on a container whose "format" is its tag
DirectCallPastFormat ==
    /\ op \in DirectReadOps
    /\ FormatIsScalar(npz)
    /\ FormatOf(npz) = TagBytes(TagOfOp(op))

\* the integer an i32 pattern stands for, as a 64-bit pattern
SignExtend(x) == x \o (IF x[4] >= 128 THEN <<255, 255, 255, 255>> ELSE <<0, 0, 0, 0>>)

\* the integers an index array stores, whatever its width
Vals(a) ==
    IF a.dtype = "<i4" THEN [i \in 1..Len(a.elems) |-> SignExtend(a.elems[i])]
    ELSE a.elems

----------------------------------------------------------------------------
(* C4 *)

\* what Sparse::from_npz does on a zero-dimensional "format"
C4_ScalarCases ==
    LET f == FormatOf(npz)
    IN  /\ \A t \in Tags :
              f = TagBytes(t) =>
                  /\ fetched = <<"format">> \o DirectDecode(t, npz).fetched
                  /\ res.ok = DirectDecode(t, npz).res.ok
                  /\ res.ok => (res.val.variant = t /\ res.val.m = DirectDecode(t, npz).res.val)
                  /\ ~res.ok => (res = DirectDecode(t, npz).res /\ res.kind # "InvalidFormat")
        /\ (\A t \in Tags : f # TagBytes(t)) =>
              /\ res = Err("InvalidFormat", "format", "", Rendering(f))
              /\ fetched = <<"format">>

\* C4 (amended): Sparse::from_npz on a zero-dimensional "format" equal to a
\* tag runs that variant's decoder and an Ok result carries that variant; on
\* any other bytes it fails with InvalidFormat carrying the rendering of the
\* bytes; on a "format" of another rank it fails with InvalidRank naming
\* "format" with the actual rank and the expected rank 0.
C4_Dispatch ==
    (op = "Sparse::from_npz" /\ Has(npz, "format")) =>
        /\ FormatIsScalar(npz) => C4_ScalarCases
        /\ by_name(npz, "format").shape # <<>> =>
              res = Err("InvalidRank", "format", "", <<Len(by_name(npz, "format").shape), 0>>)

\* C4 (as claimed): the same, but a "format" of another rank fails with
\* InvalidFormat.
C4_Original ==
    (op = "Sparse::from_npz" /\ Has(npz, "format")) =>
        /\ FormatIsScalar(npz) => C4_ScalarCases
        /\ by_name(npz, "format").shape # <<>> => (~res.ok /\ res.kind = "InvalidFormat")

\* Sparse::from_npz has been called on a container whose "format" has rank 1
C4_Witness ==
    /\ op = "Sparse::from_npz" /\ Has(npz, "format")
    /\ Len(by_name(npz, "format").shape) = 1
    /\ ~res.ok /\ res.kind = "InvalidRank" /\ res.name = "format"

----------------------------------------------------------------------------
(* C5 *)

\* C5: a per-variant decoder called on a container whose "format" differs
\* from its tag returns FormatMismatch (expected tag, rendering of the stored
\* bytes) and has looked up no array but "format".
C5_Reverify ==
    (op \in DirectReadOps /\ FormatIsScalar(npz)
        /\ FormatOf(npz) # TagBytes(TagOfOp(op))) =>
        /\ res = Err("FormatMismatch", "format", TagOfOp(op), Rendering(FormatOf(npz)))
        /\ fetched = <<"format">>

\* Coo::from_npz has been called on a "csr" container that has no "shape"
C5_Witness ==
    /\ op = "Coo::from_npz" /\ FormatIsScalar(npz) /\ FormatOf(npz) = TagBytes("csr")
    /\ ~Has(npz, "shape")
    /\ ~res.ok /\ res.kind = "FormatMismatch"

----------------------------------------------------------------------------
(* C6 *)

\* C6 (as claimed): Dia::write_npz declares data with shape
\* [len(offsets), len(data) / len(offsets)].
C6_DiaLayout ==
    (WriteCalled /\ rec.tag = "dia" /\ wres = "Ok") =>
        by_name(npz, "data").shape =
            <<U64(Len(rec.offsets)), U64(Len(rec.data) \div Len(rec.offsets))>>

----------------------------------------------------------------------------
(* C7 *)

\* C7 (as claimed): write_npz on a Bsr or Dia record that violates its length
\* relation panics, and no "data" array is started.
C7_Precondition ==
    (WriteCalled /\ rec.tag \in {"bsr", "dia"} /\ ~LengthRel(rec)) =>
        (wres = "Panic" /\ ~Has(npz, "data"))

----------------------------------------------------------------------------
(* C8 *)

\* how the decoder fares on the i-th array of its plan, the last one it
\* asked for being the k-th
C8_ArrayCase(tag, i, k) ==
    LET n == Plan(tag)[i].name
        e == Plan(tag)[i].rank
    IN  /\ ~Has(npz, n) => (i = k /\ res = Err("MissingArray", n, "", <<>>))
        /\ (Has(npz, n) /\ Len(by_name(npz, n).shape) # e) =>
              (i = k /\ res = Err("InvalidRank", n, "", <<Len(by_name(npz, n).shape), e>>))
        /\ (n = "shape" /\ Has(npz, n) /\ Len(by_name(npz, n).shape) = 1
              /\ by_name(npz, n).dtype \in {"<i4", "<i8"}
              /\ Len(by_name(npz, n).elems) # 2) =>
              (i = k /\ res = Err("InvalidShape", n, "", <<Len(by_name(npz, n).elems)>>))

\* C8: a per-variant decoder asks for shape, its index arrays and data in
\* this order; a missing array yields MissingArray, an array of another rank
\* than expected yields InvalidRank (name, actual, expected), a rank-1 shape
\* that does not hold 2 elements yields InvalidShape; the decoder stops there,
\* and it returns a record only if it got past every array.
C8_RankShape ==
    DirectCallPastFormat =>
        LET tag == TagOfOp(op)
            k == Len(fetched) - 1
        IN  /\ k >= 1 /\ k <= Len(Plan(tag))
            /\ fetched = <<"format">> \o PlanNames(tag, k)
            /\ \A i \in 1..k : C8_ArrayCase(tag, i, k)
            /\ k < Len(Plan(tag)) => ~res.ok

\* Coo::from_npz has been called on a container with a 2-D "row"
C8_Witness ==
    /\ DirectCallPastFormat /\ op = "Coo::from_npz"
    /\ Has(npz, "row") /\ Len(by_name(npz, "row").shape) = 2
    /\ res = Err("InvalidRank", "row", "", <<2, 1>>)

----------------------------------------------------------------------------
(* C9 *)

IndexNames == {"shape", "row", "col", "indices", "indptr", "offsets"}

\* the container with every 4-byte index array stored 8-byte instead, the
\* integers kept
Widened(z) ==
    [i \in 1..Len(z) |->
        IF z[i].name \in IndexNames /\ z[i].dtype = "<i4"
        THEN [z[i] EXCEPT !.dtype = "<i8", !.elems = Vals(z[i])]
        ELSE z[i]]

\* the decoder an entry point is
DecodeBy(o, z) ==
    IF o = "Sparse::from_npz" THEN Sparse_from_npz(z) ELSE DirectDecode(TagOfOp(o), z)

\* C9: from_npz returns the same on a container and on the container that
\* stores its 4-byte index arrays 8-byte; an index array of another element
\* type, once reached, yields InvalidDType naming it.
C9_WidthIndependence ==
    /\ op \in DirectReadOps \cup {"Sparse::from_npz"} =>
          res = DecodeBy(op, Widened(npz)).res
    /\ DirectCallPastFormat =>
          \A i \in 1..(Len(fetched) - 1) :
              LET p == Plan(TagOfOp(op))[i]
              IN  (p.index /\ Has(npz, p.name) /\ Len(by_name(npz, p.name).shape) = 1
                      /\ by_name(npz, p.name).dtype \notin {"<i4", "<i8"}) =>
                      /\ i = Len(fetched) - 1
                      /\ res = Err("InvalidDType", p.name, by_name(npz, p.name).dtype, <<>>)

\* Coo::from_npz has returned a record from a foreign container whose "row"
\* is 4-byte and holds a negative value
C9_Witness ==
    /\ rec = NoRec /\ op = "Coo::from_npz" /\ res.ok
    /\ by_name(npz, "row").dtype = "<i4"
    /\ by_name(npz, "shape").dtype = "<i8"
    /\ res.val.row = <<I64(7), I64(-2)>>

----------------------------------------------------------------------------
(* C10 *)

\* every array of the plan is there with the expected rank and an accepted
\* element type, data of Dia and Bsr in C order
C10_ArraysAccepted(tag) ==
    \A i \in 1..Len(Plan(tag)) :
        LET p == Plan(tag)[i]
        IN  /\ Has(npz, p.name)
            /\ Len(by_name(npz, p.name).shape) = p.rank
            /\ p.index => by_name(npz, p.name).dtype \in {"<i4", "<i8"}
            /\ ~p.index => by_name(npz, p.name).dtype = TDType
            /\ (~p.index /\ tag \in {"dia", "bsr"}) => by_name(npz, p.name).order = "C"

\* the record that holds the arrays' contents
Assembled(tag) ==
    LET shape == <<Vals(by_name(npz, "shape"))[1], Vals(by_name(npz, "shape"))[2]>>
        data == by_name(npz, "data")
    IN  CASE tag = "coo" ->
               Coo(shape, data.elems, Vals(by_name(npz, "row")), Vals(by_name(npz, "col")))
          [] tag = "csr" ->
               Csr(shape, data.elems, Vals(by_name(npz, "indices")),
                   Vals(by_name(npz, "indptr")))
          [] tag = "csc" ->
               Csc(shape, data.elems, Vals(by_name(npz, "indices")),
                   Vals(by_name(npz, "indptr")))
          [] tag = "dia" -> Dia(shape, data.elems, Vals(by_name(npz, "offsets")))
          [] tag = "bsr" ->
               Bsr(shape, <<data.shape[2], data.shape[3]>>, data.elems,
                   Vals(by_name(npz, "indices")), Vals(by_name(npz, "indptr")))

\* C10 (as claimed): if the discriminator matches and every required array is
\* present with the expected rank, an accepted element type and C order, the
\* per-variant decoder returns the record holding the arrays' contents.
C10_Original ==
    (DirectCallPastFormat /\ C10_ArraysAccepted(TagOfOp(op))) =>
        (res.ok /\ res.val = Assembled(TagOfOp(op)))

\* C10 (amended): the same, for a "shape" that holds exactly 2 elements.
C10_Leniency ==
    (DirectCallPastFormat /\ C10_ArraysAccepted(TagOfOp(op))
        /\ Len(by_name(npz, "shape").elems) = 2) =>
        (res.ok /\ res.val = Assembled(TagOfOp(op)))

\* Bsr::from_npz has returned a record whose shape [3, 5] is not divisible by
\* its blocksize [2, 2] and whose indptr [5, 1, -1] is unsorted
C10_Witness ==
    /\ rec = NoRec /\ op = "Bsr::from_npz" /\ res.ok
    /\ res.val.shape = <<U64(3), U64(5)>>
    /\ res.val.blocksize = <<U64(2), U64(2)>>
    /\ res.val.indptr = <<I64(5), I64(1), I64(-1)>>
    /\ Len(res.val.indices) = 2

----------------------------------------------------------------------------
(* C11 *)

\* C11: write_npz on a Dia record with an empty offsets never returns Ok,
\* whatever data holds: it panics when format, shape and offsets have been
\* started, these three in this order and nothing else, so before any data
\* array is started.
C11_EmptyOffsets ==
    (WriteCalled /\ rec.tag = "dia" /\ rec.offsets = <<>>) =>
        /\ wres = "Panic"
        /\ Names(npz) = <<"format", "shape", "offsets">>
        /\ ~Has(npz, "data")

\* Dia::write_npz has been called on a record with empty offsets and empty
\* data, and has panicked
C11_Witness ==
    /\ WriteCalled /\ op = "Dia::write_npz"
    /\ rec.tag = "dia" /\ rec.offsets = <<>> /\ rec.data = <<>>
    /\ wres = "Panic"
    /\ Len(npz) = 3 /\ npz[3].name = "offsets" /\ npz[3].elems = <<>>

=============================================================================
